---- MODULE Spec2Model ----
(***************************************************************************)
(* Model of check_flp.py: the multi-pass floppy rescue (multi_pass_rescue) *)
(* with its archive pipeline, and the comment sanitiser.                   *)
(*                                                                         *)
(* The TRACK_SIZE bytes of one (track, head) unit are one block value:     *)
(* 0 is the all-zero block bytearray(TOTAL_SIZE) starts with, 1..MaxData   *)
(* are distinct contents a full read can return.  Characters are code      *)
(* points.  The device, the file system and the keyboard are the           *)
(* environment: their outcomes are chosen nondeterministically within the  *)
(* bounds below.                                                           *)
(***************************************************************************)
EXTENDS Integers, Sequences, FiniteSets, TLC

\* ---------------------------------------------------------------- bounds
MaxPasses == 2      \* --passes is drawn from -1..MaxPasses
MaxData == 2        \* distinct non-zero block contents a read can return
MaxFlaky == 1       \* units at which the device may fail or the user interrupt
MaxAge == 2         \* age (ticks) of the newest archive in BAK at start
CooldownTicks == 2  \* the cooldown duration of the spec's gate (ticks)
MaxShort == 3       \* sanitiser inputs: every string up to this length
MaxLong == 34       \* sanitiser inputs: runs of one character up to this length

\* ------------------------------------------------------ program constants
TRACKS == 80
HEADS == 2
SECTORS_PER_TRACK == 18
SECTOR_SIZE == 512
TRACK_SIZE == SECTORS_PER_TRACK * SECTOR_SIZE
TOTAL_SIZE == 1474560
TOTAL_TRACK_HEADS == TRACKS * HEADS
CommentLimit == 32
LimbBits == 13
Limbs == 4

NOCOMM == <<78, 79, 67, 79, 77, 77>>
NoArchive == 0 - 1
NoData == 0 - 1

VARIABLES
    pc,               \* position in multi_pass_rescue
    PASSES,           \* int(passes)
    comment,          \* the comment argument, then the sanitised comment
    report,           \* metadata serial and the two spot lists
    master_bin,       \* block index -> block value
    track_results,    \* [t][h] -> sequence of booleans
    p, t, h,          \* loop variables of the scan
    ops_done,
    final_status_map,
    salvaged_count,
    health_score,
    files,            \* the two intermediates in BAK: "absent", "partial", "complete"
    zip,              \* the archive file at zip_path
    diag,             \* the diagnostics printed so far
    shown,            \* render_final_view has printed the archive's name and place
    exit,             \* "running", "returned" or "traceback"
    deadBelow,        \* environment: units below this index never read in full
    eventUnits,       \* environment: units whose reads may fail or be interrupted
    archiveAge,       \* environment: age of the newest archive in BAK, or NoArchive
    lastEvent,        \* environment: what the last unit iteration met
    fault,            \* environment: the fatal event of this run, if any
    firstGood         \* history: block index -> data of the earliest full read

vars == <<pc, PASSES, comment, report, master_bin, track_results, p, t, h,
          ops_done, final_status_map, salvaged_count, health_score, files, zip,
          diag, shown, exit, deadBelow, eventUnits, archiveAge, lastEvent,
          fault, firstGood>>

\* -------------------------------------------------------------- helpers
Units == 0 .. (TOTAL_TRACK_HEADS - 1)
Blocks == 0 .. ((TOTAL_SIZE \div TRACK_SIZE) - 1)
DataVals == 1 .. MaxData

UnitIndex(tt, hh) == tt * HEADS + hh
UnitOffset(tt, hh) == (tt * HEADS + hh) * TRACK_SIZE
BlockAt(offset) == offset \div TRACK_SIZE

\* sum(res) over a list of booleans
SumTrue(res) == Cardinality({i \in 1 .. Len(res) : res[i]})

\* the units the environment may disturb: (5,1) first, then spread over the disk
Candidates == {(UnitIndex(5, 1) + 37 * i) % TOTAL_TRACK_HEADS : i \in 0 .. (MaxFlaky - 1)}

\* ---------------------------------------------------- _sanitize_comment
\* An optional string: None, or a sequence of code points.
NoneStr == [none |-> TRUE, text |-> <<>>]
Str(s) == [none |-> FALSE, text |-> s]

\* str.strip() with no argument strips whitespace; here space, tab, newline
Whitespace == {32, 9, 10}
Hyphen == 45
Underscore == 95

\* the alphabet's letters and digits outside ASCII for which str.isalnum() is
\* true: U+00E9 (e acute, a letter) and U+0663 (Arabic-Indic digit three)
UnicodeAlnum == {233, 1635}

\* str.isalnum() of one character
isalnum(ch) == ch \in (48 .. 57) \cup (65 .. 90) \cup (97 .. 122) \cup UnicodeAlnum

\* s.strip(set): s without its leading and trailing characters of `set`
Strip(s, set) ==
    LET keep == {i \in 1 .. Len(s) : s[i] \notin set}
    IN  IF keep = {} THEN <<>>
        ELSE SubSeq(s, CHOOSE i \in keep : \A j \in keep : i <= j,
                       CHOOSE i \in keep : \A j \in keep : j <= i)

\* s[:n]
Take(s, n) == SubSeq(s, 1, IF Len(s) < n THEN Len(s) ELSE n)

\* lines 35-40: every character that is not alphanumeric, "-" or "_" becomes "_"
SafeChars(s) ==
    [i \in 1 .. Len(s) |->
        IF isalnum(s[i]) \/ s[i] \in {Hyphen, Underscore} THEN s[i] ELSE Underscore]

_sanitize_comment(c) ==
    LET stripped == Strip(IF c.none THEN <<>> ELSE c.text, Whitespace)
    IN  IF stripped = <<>>
        THEN NOCOMM
        ELSE LET cleaned == Strip(SafeChars(stripped), {Underscore})
             IN  Take(IF cleaned = <<>> THEN NOCOMM ELSE cleaned, CommentLimit)

\* --------------------------------------------- double-precision arithmetic
\* health_score is int(round((salvaged_count / float(TOTAL_TRACK_HEADS)) * 100)):
\* one double division, one double multiplication, then round() to the nearest
\* integer with ties to even.  A double is [m, e]: m the 53-bit significand as
\* limbs, most significant first (the leading 1, then Limbs limbs of LimbBits
\* bits), e the weight of its last bit (value = m * 2^e); zero is the empty
\* significand.
LimbBase == 2 ^ LimbBits
FracBits == Limbs * LimbBits

\* m + 1, from limb i down to the leading limb
RECURSIVE IncLimbs(_, _)
IncLimbs(m, i) ==
    IF i = 1 \/ m[i] + 1 < LimbBase
    THEN [m EXCEPT ![i] = m[i] + 1]
    ELSE IncLimbs([m EXCEPT ![i] = 0], i - 1)

\* round-to-nearest, ties-to-even, of the significand m (weight of the last
\* bit: e) given that the discarded remainder is above, or exactly, one half
RoundNearestEven(m, e, aboveHalf, atHalf) ==
    LET up == aboveHalf \/ (atHalf /\ m[Len(m)] % 2 = 1)
        r == IF up THEN IncLimbs(m, Len(m)) ELSE m
    IN  IF r[1] > 1
        THEN [m |-> [r EXCEPT ![1] = 1], e |-> e + 1]
        ELSE [m |-> r, e |-> e]

\* long division: the next limbs of the quotient of a remainder r < n
RECURSIVE DivLimbs(_, _, _)
DivLimbs(m, r, n) ==
    IF Len(m) = Limbs + 1
    THEN [m |-> m, r |-> r]
    ELSE DivLimbs(Append(m, (r * LimbBase) \div n), (r * LimbBase) % n, n)

\* float(a) / float(n) for integers 0 <= a <= n, 0 < n
FloatDiv(a, n) ==
    IF a = 0 THEN [m |-> <<>>, e |-> 0]
    ELSE LET k == CHOOSE j \in 0 .. 30 :
                      a * 2 ^ j >= n /\ (j = 0 \/ a * 2 ^ (j - 1) < n)
             q == DivLimbs(<<1>>, a * 2 ^ k - n, n)
         IN  RoundNearestEven(q.m, 0 - (k + FracBits), 2 * q.r > n, 2 * q.r = n)

\* the limbs of m times the small integer c, the leading limb left unreduced
RECURSIVE MulLimbs(_, _, _, _)
MulLimbs(m, c, i, carry) ==
    LET v == m[i] * c + carry
    IN  IF i = 1
        THEN [m EXCEPT ![1] = v]
        ELSE MulLimbs([m EXCEPT ![i] = v % LimbBase], c, i - 1, v \div LimbBase)

\* x * float(c) for an integer 0 < c < LimbBase
FloatMul(x, c) ==
    IF x.m = <<>> THEN x
    ELSE LET prod == MulLimbs(x.m, c, Len(x.m), 0)
             drop == CHOOSE j \in 0 .. LimbBits :
                         2 ^ j <= prod[1] /\ prod[1] < 2 ^ (j + 1)
             low == 2 ^ drop
             kept == [i \in 1 .. Len(prod) |->
                         IF i = 1 THEN 1
                         ELSE (prod[i - 1] % low) * (LimbBase \div low)
                              + prod[i] \div low]
             tail == prod[Len(prod)] % low
         IN  RoundNearestEven(kept, x.e + drop, 2 * tail > low,
                              drop > 0 /\ 2 * tail = low)

\* round(x) of a double 0 <= x < LimbBase: nearest integer, ties to even
PyRound(x) ==
    IF x.m = <<>> \/ FracBits + 1 + x.e < 0 THEN 0
    ELSE LET lowZero == \A i \in 3 .. Len(x.m) : x.m[i] = 0
         IN  IF FracBits + 1 + x.e = 0
             THEN (IF x.m[2] = 0 /\ lowZero THEN 0 ELSE 1)
             ELSE LET k == FracBits + x.e
                      w == 2 ^ (LimbBits - k)
                      ip == 2 ^ k + x.m[2] \div w
                      fr == x.m[2] % w
                      half == 2 * fr >= w
                      tie == 2 * fr = w /\ lowZero
                  IN  IF half /\ (~tie \/ ip % 2 = 1) THEN ip + 1 ELSE ip

\* a score that rounds up
HealthScoreCeil(salvaged) ==
    (100 * salvaged + TOTAL_TRACK_HEADS - 1) \div TOTAL_TRACK_HEADS

\* line 237
HealthScore(salvaged) == PyRound(FloatMul(FloatDiv(salvaged, TOTAL_TRACK_HEADS), 100))

\* ------------------------------------------------------------ environment
\* what the device returns for unit u when nothing is chosen for it: units
\* below deadBelow give a zero-length read, the others the block content 1
DeviceFull(u, d) == u \in eventUnits \/ (u >= deadBelow /\ d = 1)
DeviceShort(u) == u \in eventUnits \/ u < deadBelow
DeviceEvent(u) == u \in eventUnits

\* the strings typed at the "Enter comment for archive" prompt
PromptInputs == {<<>>, <<97, 32, 98>>, <<233>>}

\* sanitiser inputs: None, every string up to MaxShort characters over the
\* alphabet, and runs of one character up to MaxLong with a short prefix
CommentChars == {97, 90, 55, Hyphen, Underscore, 32, 47, 233}
RECURSIVE SeqsUpTo(_, _)
SeqsUpTo(S, n) ==
    IF n = 0 THEN {<<>>}
    ELSE LET shorter == SeqsUpTo(S, n - 1)
         IN  shorter \cup {Append(s, c) : s \in shorter, c \in S}
SanitizeInputs ==
    {NoneStr}
    \cup {Str(s) : s \in SeqsUpTo(CommentChars, MaxShort)}
    \cup {Str(pre \o [i \in 1 .. n |-> c]) :
             pre \in SeqsUpTo({Underscore, 97}, 1),
             n \in (CommentLimit - 1) .. MaxLong, c \in CommentChars}

\* ------------------------------------------------------------------ state
NoZip == [exists |-> FALSE, entries |-> {}, closed |-> FALSE]
ZipComplete(z) == z.exists /\ z.closed /\ z.entries = {"bin", "json"}

\* lines 124-154: the state multi_pass_rescue builds before it opens the source
InitProgram ==
    /\ pc = "open"
    /\ report = [serial |-> "UNKNOWN", unstable_spots |-> <<>>,
                 stable_bad_spots |-> <<>>]
    /\ master_bin = [b \in Blocks |-> 0]
    /\ track_results = [tt \in 0 .. (TRACKS - 1) |-> [hh \in 0 .. (HEADS - 1) |-> <<>>]]
    /\ p = 0 /\ t = 0 /\ h = 0
    /\ ops_done = 0
    /\ final_status_map = <<>>
    /\ salvaged_count = 0
    /\ health_score = 0
    /\ files = [bin |-> "absent", json |-> "absent"]
    /\ zip = NoZip
    /\ diag = {}
    /\ shown = FALSE
    /\ exit = "running"
    /\ lastEvent = "none"
    /\ fault = "none"
    /\ firstGood = [b \in Blocks |-> NoData]

\* any pass count the command line accepts, a device that is sound or dead
\* apart from the units the environment may disturb, no earlier archive
Init ==
    /\ InitProgram
    /\ PASSES \in -1 .. MaxPasses
    /\ comment = NoneStr
    /\ deadBelow \in {0, TOTAL_TRACK_HEADS}
    /\ eventUnits = Candidates
    /\ archiveAge = NoArchive

\* ------------------------------------------------------- opening the source
\* line 157: open_source succeeds
OpenSource ==
    /\ pc = "open"
    /\ pc' = "boot"
    /\ UNCHANGED <<PASSES, comment, report, master_bin, track_results, p, t, h,
                   ops_done, final_status_map, salvaged_count, health_score,
                   files, zip, diag, shown, exit, deadBelow, eventUnits,
                   archiveAge, lastEvent, fault, firstGood>>

\* lines 207-214: open_source raises; PermissionError and every other
\* Exception print their own diagnostic and return
OpenFails ==
    /\ pc = "open"
    /\ \E kind \in {"permission_error", "hardware_error"} : diag' = diag \cup {kind}
    /\ pc' = "done"
    /\ exit' = "returned"
    /\ fault' = "open"
    /\ UNCHANGED <<PASSES, comment, report, master_bin, track_results, p, t, h,
                   ops_done, final_status_map, salvaged_count, health_score,
                   files, zip, shown, deadBelow, eventUnits, archiveAge,
                   lastEvent, firstGood>>

\* lines 159-166: the boot sector lies in unit 0; a read of fewer than 512
\* bytes, or any error, leaves the defaults.  Then the pass loop starts.
ReadBoot ==
    /\ pc = "boot"
    /\ report' = IF 0 >= deadBelow THEN [report EXCEPT !.serial = "SERIAL"] ELSE report
    /\ p' = 1
    /\ pc' = "pass"
    /\ UNCHANGED <<PASSES, comment, master_bin, track_results, t, h, ops_done,
                   final_status_map, salvaged_count, health_score, files, zip,
                   diag, shown, exit, deadBelow, eventUnits, archiveAge,
                   lastEvent, fault, firstGood>>

\* ------------------------------------------------------------ the scan
\* lines 169-172: for p in range(1, PASSES + 1): f.seek(0), then the first unit
BeginPass ==
    /\ pc = "pass"
    /\ p <= PASSES
    /\ t' = 0
    /\ h' = 0
    /\ pc' = "unit"
    /\ UNCHANGED <<PASSES, comment, report, master_bin, track_results, p,
                   ops_done, final_status_map, salvaged_count, health_score,
                   files, zip, diag, shown, exit, deadBelow, eventUnits,
                   archiveAge, lastEvent, fault, firstGood>>

\* line 170 raises: f.seek(0) is outside the per-unit try, so the error
\* reaches "except Exception" (lines 212-214)
SeekStartFails ==
    /\ pc = "pass"
    /\ p <= PASSES
    /\ diag' = diag \cup {"hardware_error"}
    /\ pc' = "done"
    /\ exit' = "returned"
    /\ fault' = "scan"
    /\ UNCHANGED <<PASSES, comment, report, master_bin, track_results, p, t, h,
                   ops_done, final_status_map, salvaged_count, health_score,
                   files, zip, shown, deadBelow, eventUnits, archiveAge,
                   lastEvent, firstGood>>

\* the pass loop is exhausted: the with block closes the source
EndScan ==
    /\ pc = "pass"
    /\ p > PASSES
    /\ pc' = "analysis"
    /\ UNCHANGED <<PASSES, comment, report, master_bin, track_results, p, t, h,
                   ops_done, final_status_map, salvaged_count, health_score,
                   files, zip, diag, shown, exit, deadBelow, eventUnits,
                   archiveAge, lastEvent, fault, firstGood>>

\* lines 171-172 and 203-205: the next unit in track-major, head-minor order,
\* or (after the sleep between passes) the next pass
ScanNext(pp, tt, hh) ==
    IF hh < HEADS - 1 THEN [pc |-> "unit", p |-> pp, t |-> tt, h |-> hh + 1]
    ELSE IF tt < TRACKS - 1 THEN [pc |-> "unit", p |-> pp, t |-> tt + 1, h |-> 0]
    ELSE [pc |-> "pass", p |-> pp + 1, t |-> tt, h |-> hh]

Advance ==
    LET n == ScanNext(p, t, h)
    IN  pc' = n.pc /\ p' = n.p /\ t' = n.t /\ h' = n.h

\* line 195: one True per full read
RecordSuccess(tr, tt, hh) == [tr EXCEPT ![tt][hh] = Append(@, TRUE)]

\* a handler that swallowed the failure without recording it
RecordFailureDropped(tr, tt, hh) == tr

\* lines 199 and 201: one False per short read or exception
RecordFailure(tr, tt, hh) == [tr EXCEPT ![tt][hh] = Append(@, FALSE)]

\* a store that every full read performs
StoreAlways(mb, res, offset, data) == [mb EXCEPT ![BlockAt(offset)] = data]

\* lines 196-197: the data is stored when this is the unit's only success
StoreFirst(mb, res, offset, data) ==
    IF SumTrue(res) = 1 THEN [mb EXCEPT ![BlockAt(offset)] = data] ELSE mb

\* lines 173-197: the read of unit (t, h) returns exactly TRACK_SIZE bytes
ReadFull ==
    /\ pc = "unit"
    /\ \E data \in DataVals :
          /\ DeviceFull(UnitIndex(t, h), data)
          /\ track_results' = RecordSuccess(track_results, t, h)
          /\ master_bin' = StoreFirst(master_bin, track_results'[t][h],
                                      UnitOffset(t, h), data)
          /\ firstGood' = IF firstGood[UnitIndex(t, h)] = NoData
                          THEN [firstGood EXCEPT ![UnitIndex(t, h)] = data]
                          ELSE firstGood
    /\ ops_done' = ops_done + 1
    /\ lastEvent' = "full"
    /\ Advance
    /\ UNCHANGED <<PASSES, comment, report, final_status_map, salvaged_count,
                   health_score, files, zip, diag, shown, exit, deadBelow,
                   eventUnits, archiveAge, fault>>

\* what every failed read does: one False, nothing stored, the loop goes on
FailedRead(event) ==
    /\ track_results' = RecordFailure(track_results, t, h)
    /\ ops_done' = ops_done + 1
    /\ lastEvent' = event
    /\ Advance
    /\ UNCHANGED <<PASSES, comment, report, master_bin, final_status_map,
                   salvaged_count, health_score, files, zip, diag, shown, exit,
                   deadBelow, eventUnits, archiveAge, fault, firstGood>>

\* lines 198-199: the read returns fewer than TRACK_SIZE bytes
ReadShort ==
    /\ pc = "unit"
    /\ DeviceShort(UnitIndex(t, h))
    /\ FailedRead("short")

\* lines 200-201: f.seek(offset) or f.read raises an I/O error
ReadIOError ==
    /\ pc = "unit"
    /\ DeviceEvent(UnitIndex(t, h))
    /\ FailedRead("ioerror")

\* lines 200-201: KeyboardInterrupt is raised inside the per-unit try; the
\* bare "except:" catches BaseException too
ReadInterrupted ==
    /\ pc = "unit"
    /\ DeviceEvent(UnitIndex(t, h))
    /\ FailedRead("interrupt")

\* KeyboardInterrupt outside the per-unit try is no Exception: it passes
\* lines 207-214 and ends the process with a traceback
Killed ==
    /\ pc' = "done"
    /\ exit' = "traceback"
    /\ fault' = "interrupt"
    /\ lastEvent' = "interrupt"
    /\ UNCHANGED <<PASSES, comment, report, master_bin, track_results, p, t, h,
                   final_status_map, salvaged_count, health_score, files, zip,
                   diag, shown, deadBelow, eventUnits, archiveAge, firstGood>>

\* lines 175-189: the interrupt arrives while the progress line is written
InterruptInProgress ==
    /\ pc = "unit"
    /\ DeviceEvent(UnitIndex(t, h))
    /\ ops_done' = ops_done + 1
    /\ Killed

\* lines 170 and 205: the interrupt arrives in f.seek(0) or in time.sleep(1)
InterruptBetweenPasses ==
    /\ pc = "pass"
    /\ p <= PASSES
    /\ UNCHANGED ops_done
    /\ Killed

\* ---------------------------------------------------------------- analysis
\* a classifier for which one success makes a unit good
ClassifyAnySuccess(res, passes) ==
    IF SumTrue(res) > 0 THEN "STABLE_OK" ELSE "STABLE_BAD"

\* lines 220-228
Classify(res, passes) ==
    IF SumTrue(res) = passes THEN "STABLE_OK"
    ELSE IF SumTrue(res) = 0 THEN "STABLE_BAD"
    ELSE "UNSTABLE"

\* the units in the order of the loops of lines 218-219
UnitSeq == [i \in 1 .. TOTAL_TRACK_HEADS |-> <<(i - 1) \div HEADS, (i - 1) % HEADS>>]

\* line 226: "T:tt H:h" for every STABLE_BAD unit, in order
StableBadSpots(tr, passes) ==
    LET IsBad(u) == Classify(tr[u[1]][u[2]], passes) = "STABLE_BAD"
    IN  SelectSeq(UnitSeq, IsBad)

\* line 229: "T:tt H:h (successes/PASSES)" for every UNSTABLE unit, in order
UnstableSpots(tr, passes) ==
    LET IsUnstable(u) == Classify(tr[u[1]][u[2]], passes) = "UNSTABLE"
        sel == SelectSeq(UnitSeq, IsUnstable)
    IN  [i \in 1 .. Len(sel) |->
            <<sel[i][1], sel[i][2], SumTrue(tr[sel[i][1]][sel[i][2]]), passes>>]

\* lines 216-229
Analyse ==
    /\ pc = "analysis"
    /\ final_status_map' =
           [i \in 1 .. TOTAL_TRACK_HEADS |->
               Classify(track_results[UnitSeq[i][1]][UnitSeq[i][2]], PASSES)]
    /\ report' = [report EXCEPT
                     !.stable_bad_spots = StableBadSpots(track_results, PASSES),
                     !.unstable_spots = UnstableSpots(track_results, PASSES)]
    /\ pc' = "finalize"
    /\ UNCHANGED <<PASSES, comment, master_bin, track_results, p, t, h, ops_done,
                   salvaged_count, health_score, files, zip, diag, shown, exit,
                   deadBelow, eventUnits, archiveAge, lastEvent, fault, firstGood>>

\* a count of the units read in full in every pass
SalvagedOnlyStableOk(map) == Cardinality({i \in 1 .. Len(map) : map[i] = "STABLE_OK"})

\* line 236
SalvagedCount(map) == Cardinality({i \in 1 .. Len(map) : map[i] # "STABLE_BAD"})

\* lines 233-241: the prompt, the sanitised comment, the score, the names
Finalize ==
    /\ pc = "finalize"
    /\ \E typed \in PromptInputs :
          comment' = Str(_sanitize_comment(IF comment.none THEN Str(typed) ELSE comment))
    /\ salvaged_count' = SalvagedCount(final_status_map)
    /\ health_score' = HealthScore(SalvagedCount(final_status_map))
    /\ pc' = "write_bin"
    /\ UNCHANGED <<PASSES, report, master_bin, track_results, p, t, h, ops_done,
                   final_status_map, files, zip, diag, shown, exit, deadBelow,
                   eventUnits, archiveAge, lastEvent, fault, firstGood>>

\* ---------------------------------------------------------------- archive
ArchiveFrame ==
    UNCHANGED <<PASSES, comment, report, master_bin, track_results, p, t, h,
                ops_done, final_status_map, salvaged_count, health_score,
                deadBelow, eventUnits, archiveAge, lastEvent, firstGood>>

\* an exception no handler catches: the process ends with a traceback
Traceback(cause) ==
    /\ pc' = "done"
    /\ exit' = "traceback"
    /\ fault' = cause

\* lines 249-250
WriteBin ==
    /\ pc = "write_bin"
    /\ files' = [files EXCEPT !.bin = "complete"]
    /\ pc' = "write_json"
    /\ UNCHANGED <<zip, diag, shown, exit, fault>>
    /\ ArchiveFrame

\* lines 249-250 raise: the file could not be created, or is cut short
WriteBinFails ==
    /\ pc = "write_bin"
    /\ \E left \in {"absent", "partial"} : files' = [files EXCEPT !.bin = left]
    /\ Traceback("serialize")
    /\ UNCHANGED <<zip, diag, shown>>
    /\ ArchiveFrame

\* lines 251-252
WriteJson ==
    /\ pc = "write_json"
    /\ files' = [files EXCEPT !.json = "complete"]
    /\ pc' = "zip_open"
    /\ UNCHANGED <<zip, diag, shown, exit, fault>>
    /\ ArchiveFrame

\* lines 251-252 raise
WriteJsonFails ==
    /\ pc = "write_json"
    /\ \E left \in {"absent", "partial"} : files' = [files EXCEPT !.json = left]
    /\ Traceback("serialize")
    /\ UNCHANGED <<zip, diag, shown>>
    /\ ArchiveFrame

\* line 257: ZipFile(zip_path, 'w') creates the archive file
ZipOpen ==
    /\ pc = "zip_open"
    /\ zip' = [exists |-> TRUE, entries |-> {}, closed |-> FALSE]
    /\ pc' = "zip_bin"
    /\ UNCHANGED <<files, diag, shown, exit, fault>>
    /\ ArchiveFrame

\* line 258
ZipWriteBin ==
    /\ pc = "zip_bin"
    /\ zip' = [zip EXCEPT !.entries = @ \cup {"bin"}]
    /\ pc' = "zip_json"
    /\ UNCHANGED <<files, diag, shown, exit, fault>>
    /\ ArchiveFrame

\* line 259
ZipWriteJson ==
    /\ pc = "zip_json"
    /\ zip' = [zip EXCEPT !.entries = @ \cup {"json"}]
    /\ pc' = "zip_close"
    /\ UNCHANGED <<files, diag, shown, exit, fault>>
    /\ ArchiveFrame

\* the with block of line 257 ends: the central directory is written
ZipClose ==
    /\ pc = "zip_close"
    /\ zip' = [zip EXCEPT !.closed = TRUE]
    /\ pc' = "rm_bin"
    /\ UNCHANGED <<files, diag, shown, exit, fault>>
    /\ ArchiveFrame

\* a handler that also deleted the intermediates
FilesRemovedOnError(f) == [bin |-> "absent", json |-> "absent"]

\* lines 265-266: the handler prints and touches no file
FilesAfterError(f) == f

\* lines 265-266: what "except Exception" does with any failure of the try
CompressionError(cause) ==
    /\ diag' = diag \cup {"compression_error"}
    /\ files' = FilesAfterError(files)
    /\ fault' = cause
    /\ pc' = "render"
    /\ UNCHANGED <<shown, exit>>
    /\ ArchiveFrame

\* line 257 raises: no archive file is created
ZipOpenFails ==
    /\ pc = "zip_open"
    /\ UNCHANGED zip
    /\ CompressionError("compress")

\* lines 258-259 or the closing of the archive raise: the file ZipFile
\* created stays at zip_path with the entries written so far; leaving the
\* with block closes it, which may or may not complete
ZipWriteFails ==
    /\ pc \in {"zip_bin", "zip_json", "zip_close"}
    /\ \E c \in BOOLEAN : zip' = [zip EXCEPT !.closed = c /\ pc # "zip_close"]
    /\ CompressionError("compress")

\* line 262
RemoveBin ==
    /\ pc = "rm_bin"
    /\ files' = [files EXCEPT !.bin = "absent"]
    /\ pc' = "rm_json"
    /\ UNCHANGED <<zip, diag, shown, exit, fault>>
    /\ ArchiveFrame

\* lines 263-264
RemoveJson ==
    /\ pc = "rm_json"
    /\ files' = [files EXCEPT !.json = "absent"]
    /\ diag' = diag \cup {"compressed_ok"}
    /\ pc' = "render"
    /\ UNCHANGED <<zip, shown, exit, fault>>
    /\ ArchiveFrame

\* os.remove raises (lines 262-263): the same handler, the same message
RemoveFails ==
    /\ pc \in {"rm_bin", "rm_json"}
    /\ UNCHANGED zip
    /\ CompressionError("remove")

\* lines 268-284: render_final_view prints the archive's name and place
Render ==
    /\ pc = "render"
    /\ shown' = TRUE
    /\ pc' = "done"
    /\ exit' = "returned"
    /\ UNCHANGED <<files, zip, diag, fault>>
    /\ ArchiveFrame

\* line 233 on its own: the comment argument through _sanitize_comment
SanitizeComment ==
    /\ pc = "comment"
    /\ comment' = Str(_sanitize_comment(comment))
    /\ pc' = "comment_done"
    /\ UNCHANGED <<PASSES, report, master_bin, track_results, p, t, h, ops_done,
                   final_status_map, salvaged_count, health_score, files, zip,
                   diag, shown, exit, deadBelow, eventUnits, archiveAge,
                   lastEvent, fault, firstGood>>

\* ---------------------------------------------------------- specifications
\* the steps of a run in which nothing fails but reads of the device
Quiet ==
    \/ OpenSource \/ ReadBoot \/ BeginPass \/ EndScan
    \/ ReadFull \/ ReadShort
    \/ Analyse \/ Finalize
    \/ WriteBin \/ WriteJson
    \/ ZipOpen \/ ZipWriteBin \/ ZipWriteJson \/ ZipClose
    \/ RemoveBin \/ RemoveJson \/ Render

Next ==
    \/ OpenSource \/ ReadBoot \/ BeginPass \/ EndScan
    \/ ReadFull \/ ReadShort
    \/ Analyse \/ Finalize
    \/ WriteBin \/ WriteJson
    \/ ZipOpen \/ ZipWriteBin \/ ZipWriteJson \/ ZipClose
    \/ RemoveBin \/ RemoveJson \/ Render
    \/ OpenFails \/ SeekStartFails
    \/ ReadIOError \/ ReadInterrupted
    \/ InterruptInProgress \/ InterruptBetweenPasses
    \/ WriteBinFails \/ WriteJsonFails
    \/ ZipOpenFails \/ ZipWriteFails \/ RemoveFails

Spec == Init /\ [][Next]_vars

\* every number of dead units, no other disturbance
InitSweep ==
    /\ InitProgram
    /\ PASSES \in 1 .. MaxPasses
    /\ comment = NoneStr
    /\ deadBelow \in 0 .. TOTAL_TRACK_HEADS
    /\ eventUnits = {}
    /\ archiveAge = NoArchive

SpecSweep == InitSweep /\ [][Quiet]_vars

\* a run started with or without an earlier archive in BAK
InitGate ==
    /\ InitProgram
    /\ PASSES \in 1 .. MaxPasses
    /\ comment = NoneStr
    /\ deadBelow \in {0, TOTAL_TRACK_HEADS}
    /\ eventUnits = {}
    /\ archiveAge \in NoArchive .. MaxAge

SpecGate == InitGate /\ [][Quiet]_vars

\* _sanitize_comment applied to every input of SanitizeInputs
InitSanitize ==
    /\ pc = "comment"
    /\ comment \in SanitizeInputs
    /\ PASSES = MaxPasses
    /\ report = [serial |-> "UNKNOWN", unstable_spots |-> <<>>,
                 stable_bad_spots |-> <<>>]
    /\ master_bin = [b \in Blocks |-> 0]
    /\ track_results = [tt \in 0 .. (TRACKS - 1) |-> [hh \in 0 .. (HEADS - 1) |-> <<>>]]
    /\ p = 0 /\ t = 0 /\ h = 0
    /\ ops_done = 0
    /\ final_status_map = <<>>
    /\ salvaged_count = 0
    /\ health_score = 0
    /\ files = [bin |-> "absent", json |-> "absent"]
    /\ zip = NoZip
    /\ diag = {}
    /\ shown = FALSE
    /\ exit = "running"
    /\ lastEvent = "none"
    /\ fault = "none"
    /\ firstGood = [b \in Blocks |-> NoData]
    /\ deadBelow = 0
    /\ eventUnits = {}
    /\ archiveAge = NoArchive

SpecSanitize == InitSanitize /\ [][SanitizeComment]_vars

\* ------------------------------------------------------------------ claims
Results(u) == track_results[u \div HEADS][u % HEADS]
Scanning == pc \in {"open", "boot", "pass", "unit"}
Analysed == pc \in {"finalize", "write_bin", "write_json", "zip_open", "zip_bin",
                    "zip_json", "zip_close", "rm_bin", "rm_json", "render"}
                \/ (pc = "done" /\ final_status_map # <<>>)
Finalized == Analysed /\ pc # "finalize"
NoOutputFiles == files.bin = "absent" /\ files.json = "absent" /\ ~zip.exists
StatusOf(u) == final_status_map[u + 1]
InSeq(x, s) == \E i \in 1 .. Len(s) : s[i] = x
Max0(n) == IF n < 0 THEN 0 ELSE n

\* C1: at every point of the run the block of master_bin at a unit's offset
\* holds the data of the earliest full read of that unit, or zeros when no
\* read of it has been full; and a step changes no block but the one of the
\* unit being read.
FirstSuccessWins ==
    /\ [](\A u \in Units :
             master_bin[BlockAt(UnitOffset(u \div HEADS, u % HEADS))]
                 = IF firstGood[u] = NoData THEN 0 ELSE firstGood[u])
    /\ [][\A b \in Blocks :
             b # BlockAt(UnitOffset(t, h)) => master_bin'[b] = master_bin[b]]_vars

\* C1 witness: a unit whose first pass was read in full with the second
\* content, followed by a second pass, the run carried to its end
FirstSuccessWitness ==
    /\ pc = "done" /\ exit = "returned"
    /\ \E u \in Units :
          /\ Len(Results(u)) = 2 /\ Results(u)[1]
          /\ firstGood[u] = 2 /\ master_bin[u] = 2

\* C2 (as amended): a short read or an I/O error on a unit appends one False
\* to that unit's results and to no other's, and the scan goes on with the
\* next unit in order; a run that ends before the analysis was ended by the
\* open, by f.seek(0) or by an interrupt, never by a unit's read; and once the
\* scan is over every unit has max(PASSES, 0) results.
PerUnitTolerance ==
    /\ [][(pc = "unit" /\ lastEvent' \in {"short", "ioerror"}
            /\ ops_done' = ops_done + 1)
          => /\ track_results'[t][h] = Append(track_results[t][h], FALSE)
             /\ \A u \in Units :
                   u # UnitIndex(t, h) => track_results'[u \div HEADS][u % HEADS] = Results(u)
             /\ exit' = "running"
             /\ IF UnitIndex(t, h) < TOTAL_TRACK_HEADS - 1
                THEN pc' = "unit" /\ p' = p /\ UnitIndex(t', h') = UnitIndex(t, h) + 1
                ELSE pc' = "pass" /\ p' = p + 1]_vars
    /\ []((pc = "done" /\ final_status_map = <<>>)
            => fault \in {"open", "scan", "interrupt"})
    /\ [](~Scanning /\ fault \notin {"open", "scan", "interrupt"}
            => \A u \in Units : Len(Results(u)) = Max0(PASSES))

\* C2 witness: the analysis is reached with a unit that failed in one pass
\* and was read in full in another
PerUnitToleranceWitness ==
    /\ pc = "analysis"
    /\ PASSES = 2
    /\ \E u \in Units : Results(u) = <<FALSE, TRUE>>

\* C2 as stated: once the scan is over every unit has exactly PASSES results
ExactlyPassCountEntries ==
    (~Scanning /\ fault \notin {"open", "scan", "interrupt"})
        => \A u \in Units : Len(Results(u)) = PASSES

\* the lists of the report say what the disk map says
ListsMatchMap ==
    \A u \in Units :
        /\ InSeq(<<u \div HEADS, u % HEADS>>, report.stable_bad_spots)
               <=> StatusOf(u) = "STABLE_BAD"
        /\ InSeq(<<u \div HEADS, u % HEADS, SumTrue(Results(u)), PASSES>>,
                 report.unstable_spots)
               <=> StatusOf(u) = "UNSTABLE"
        /\ (\E i \in 1 .. Len(report.unstable_spots) :
               /\ report.unstable_spots[i][1] = u \div HEADS
               /\ report.unstable_spots[i][2] = u % HEADS)
               <=> StatusOf(u) = "UNSTABLE"

\* C3 (as amended): after the analysis every unit has one of the three
\* classes; it is STABLE_OK iff its success count equals PASSES, STABLE_BAD
\* iff its success count is 0 and PASSES is not 0; and the two lists of the
\* report hold exactly the STABLE_BAD and the UNSTABLE units, the latter
\* annotated successes/PASSES.
ClassificationCorrect ==
    Analysed =>
        /\ Len(final_status_map) = TOTAL_TRACK_HEADS
        /\ \A u \in Units :
              /\ StatusOf(u) \in {"STABLE_OK", "UNSTABLE", "STABLE_BAD"}
              /\ StatusOf(u) = "STABLE_OK" <=> SumTrue(Results(u)) = PASSES
              /\ StatusOf(u) = "STABLE_BAD"
                     <=> (SumTrue(Results(u)) = 0 /\ PASSES # 0)
        /\ ListsMatchMap

\* C3 witness: an analysed two-pass run with an unstable and a stable-bad unit
ClassificationWitness ==
    /\ Analysed
    /\ PASSES = 2
    /\ \E u, v \in Units : StatusOf(u) = "UNSTABLE" /\ StatusOf(v) = "STABLE_BAD"

\* C3 as stated: for every pass count, STABLE_OK iff the success count equals
\* PASSES and STABLE_BAD iff the success count is 0
ClassificationAsStated ==
    Analysed =>
        \A u \in Units :
            /\ StatusOf(u) \in {"STABLE_OK", "UNSTABLE", "STABLE_BAD"}
            /\ StatusOf(u) = "STABLE_OK" <=> SumTrue(Results(u)) = PASSES
            /\ StatusOf(u) = "STABLE_BAD" <=> SumTrue(Results(u)) = 0

\* every unit read in full in pass 1, and in pass 2 all but (5, 1)
OnlyFiveOneFailsInPassTwo ==
    /\ PASSES = 2
    /\ \A u \in Units :
          Results(u) = IF u = UnitIndex(5, 1) THEN <<TRUE, FALSE>> ELSE <<TRUE, TRUE>>

\* what the claim says of the lists and the map in that run
SingleUnstableLists ==
    /\ StatusOf(UnitIndex(5, 1)) = "UNSTABLE"
    /\ report.unstable_spots = << <<5, 1, 1, 2>> >>
    /\ \A u \in Units : u # UnitIndex(5, 1) => StatusOf(u) = "STABLE_OK"
    /\ Cardinality({u \in Units : StatusOf(u) = "STABLE_OK"}) = 159
    /\ report.stable_bad_spots = <<>>

\* C4 (as amended): in a two-pass run where every read is full except the
\* read of unit (5, 1) in pass 2, that unit is UNSTABLE with the annotation
\* 1/2, the other 159 units are STABLE_OK, no unit is listed stable-bad, and
\* the score is 100: the unstable unit counts as salvaged.
SingleUnstableScenario ==
    (Finalized /\ OnlyFiveOneFailsInPassTwo) =>
        /\ SingleUnstableLists
        /\ salvaged_count = TOTAL_TRACK_HEADS
        /\ health_score = 100

\* C4 as stated: the same run reports the score 99
SingleUnstableScore99 ==
    (Finalized /\ OnlyFiveOneFailsInPassTwo) =>
        /\ SingleUnstableLists
        /\ health_score = 99

\* C4 witness: the scenario, with the short read, carried to the end of the run
SingleUnstableWitness ==
    /\ pc = "done" /\ exit = "returned"
    /\ OnlyFiveOneFailsInPassTwo

\* round-half-to-even of the exact quotient a / n
RoundExact(a, n) ==
    LET q == a \div n
        r == a % n
    IN  IF 2 * r < n THEN q
        ELSE IF 2 * r > n THEN q + 1
        ELSE IF q % 2 = 0 THEN q ELSE q + 1

StableBadCount == Len(report.stable_bad_spots)

\* C5: after the score is computed it is an integer of 0..100 equal to
\* round(100 * (160 - stableBadCount) / 160); 100 when every unit is
\* STABLE_OK and 0 when every unit is STABLE_BAD.
HealthScoreAsStated ==
    Finalized =>
        /\ health_score \in 0 .. 100
        /\ health_score
               = RoundExact(100 * (TOTAL_TRACK_HEADS - StableBadCount), TOTAL_TRACK_HEADS)
        /\ (\A u \in Units : StatusOf(u) = "STABLE_OK") => health_score = 100
        /\ (\A u \in Units : StatusOf(u) = "STABLE_BAD")
               => /\ health_score = 0
                  /\ StableBadCount = TOTAL_TRACK_HEADS
                  /\ report.unstable_spots = <<>>

\* what holds of the score in every run: it is an integer of 0..100 within
\* one half of the exact percentage, 100 and 0 at the two ends
HealthScoreNearest ==
    Finalized =>
        /\ health_score \in 0 .. 100
        /\ 2 * (TOTAL_TRACK_HEADS * health_score
                  - 100 * (TOTAL_TRACK_HEADS - StableBadCount)) <= TOTAL_TRACK_HEADS
        /\ 2 * (100 * (TOTAL_TRACK_HEADS - StableBadCount)
                  - TOTAL_TRACK_HEADS * health_score) <= TOTAL_TRACK_HEADS
        /\ StableBadCount = 0 => health_score = 100
        /\ StableBadCount = TOTAL_TRACK_HEADS => health_score = 0

\* C6: an intermediate is deleted only in a state where the archive is
\* complete with both entries; a run ended by a failure of the compression
\* has both intermediates on disk and has reported the failure; a run that
\* ends with no failure has the archive and neither intermediate.
ArchivePipelineOrdering ==
    /\ [][((files.bin # "absent" /\ files'.bin = "absent")
             \/ (files.json # "absent" /\ files'.json = "absent"))
          => ZipComplete(zip) /\ ZipComplete(zip')]_vars
    /\ []((pc = "done" /\ fault = "compress")
            => /\ files.bin = "complete" /\ files.json = "complete"
               /\ "compression_error" \in diag
               /\ "compressed_ok" \notin diag)
    /\ []((pc = "done" /\ fault = "none")
            => /\ ZipComplete(zip)
               /\ files.bin = "absent" /\ files.json = "absent"
               /\ "compressed_ok" \in diag)

\* C6 witness: a run ended after the archive was created and a later step
\* of the compression failed
ArchivePipelineWitness ==
    /\ pc = "done"
    /\ fault = "compress"
    /\ zip.exists
    /\ files.bin = "complete" /\ files.json = "complete"

\* C7: a run ended by a fatal error leaves no archive file and shows none; a
\* run ended by the open or during the scan has written no file; an archive
\* file that exists at the end of a run is complete with both entries.
ArchiveOnlyComplete ==
    /\ (pc = "done" /\ fault \in {"open", "scan", "interrupt", "serialize", "compress"})
           => (~zip.exists /\ ~shown)
    /\ (pc = "done" /\ fault \in {"open", "scan", "interrupt"}) => NoOutputFiles
    /\ (pc = "done" /\ zip.exists) => ZipComplete(zip)

AsciiSafe == (48 .. 57) \cup (65 .. 90) \cup (97 .. 122) \cup {Hyphen, Underscore}

\* C8: the result of _sanitize_comment has only characters of [A-Za-z0-9_-],
\* is not empty and has at most 32 characters.
SanitizedCommentSafe ==
    pc = "comment_done" =>
        /\ \A i \in 1 .. Len(comment.text) : comment.text[i] \in AsciiSafe
        /\ comment.text # <<>>
        /\ Len(comment.text) <= 32

\* what holds of every result: not empty, at most 32 characters, and no
\* character but letters, digits, "-" and "_" in the sense of str.isalnum
SanitizedCommentBounded ==
    pc = "comment_done" =>
        /\ \A i \in 1 .. Len(comment.text) :
              isalnum(comment.text[i]) \/ comment.text[i] \in {Hyphen, Underscore}
        /\ comment.text # <<>>
        /\ Len(comment.text) <= 32

\* C9: a run started while the newest archive in BAK is younger than the
\* cooldown has not opened the source.
CooldownGate ==
    (archiveAge # NoArchive /\ archiveAge < CooldownTicks) => pc = "open"

\* C10: once an interrupt was delivered during the scan the run is over with
\* a traceback: no analysis, no archival, no output file.
InterruptEndsRun ==
    lastEvent = "interrupt" =>
        /\ pc = "done" /\ exit = "traceback"
        /\ final_status_map = <<>>
        /\ NoOutputFiles

====
